---- MODULE Spec2Model ----
(***************************************************************************)
(* The TypedBuilder derive macro (typed-builder-macro).                    *)
(*                                                                         *)
(* The macro turns a struct with named fields into a builder whose type    *)
(* parameter `TypedBuilderFields` is a tuple with one element per included *)
(* field: `()` while the field is unset, `(T,)` once it is set.  Every     *)
(* generated method lives in an impl block whose tuple pattern says in     *)
(* which type-states the method exists.  This module models                *)
(*   - the schema (StructInfo and its per-field attributes),               *)
(*   - the tuple patterns the generator emits for every impl block,        *)
(*   - a call chain on the generated builder: the entry point, setters,    *)
(*     the repeated-field overload, mutators, the missing-field overloads  *)
(*     and build, each enabled exactly where its impl pattern matches the  *)
(*     current tuple and acting as its generated body does.                *)
(*   - the derive itself: impl_my_derive from the derive input to the      *)
(*     fragments of the generated code, or to one error.                   *)
(*                                                                         *)
(* Specifications: Spec, the call chains on the builder of a struct;       *)
(* SetterChain, chains of setters closed by build; Ownership, chains of a  *)
(* caller that keeps a clone of the initial builder; MutatorArgs, chains   *)
(* with mutators whose functions take parameters; Derive, the steps of     *)
(* impl_my_derive; SetterGen, the setters the derive generates and calls   *)
(* of them; MutatorGen, the mutators the derive generates for `requires`   *)
(* lists with names of no included field, and calls of them.               *)
(***************************************************************************)
EXTENDS Integers, Sequences, FiniteSets, TLC

\* Number of fields of the struct the macro is applied to.
NumFields == 2
\* FieldInfo::ordinal: the index `enumerate()` gives the field.
Ordinals == 0 .. (NumFields - 1)

----------------------------------------------------------------------------
(* Values.  A value carries the shape of its type: a plain T, or one of     *)
(* the two variants of Option<T>.                                           *)

IntV(n) == [tag |-> "int", v |-> n]
SomeV(n) == [tag |-> "some", v |-> n]
NoneV == [tag |-> "none", v |-> 0]

\* What a caller passes for a parameter of type T.  The generated code
\* moves values and never inspects them, so two distinct ones suffice to
\* tell a value from another; the literals of the schema (initializers,
\* defaults) are values no caller passes.
ArgValues == {IntV(1), IntV(2)}

\* A value of a type that converts into T (`impl Into<T>`) without being T,
\* the value `true`, and the argument of a call with no argument.
FromV(n) == [tag |-> "from", v |-> n]
BoolV(n) == [tag |-> "bool", v |-> n]
NoArg == [tag |-> "unit", v |-> 0]

\* What a caller can pass to a setter of any parameter list.
SetterArgValues == ArgValues \cup {FromV(1), SomeV(1), NoneV, NoArg}

\* Option<...> attributes of the schema: None, or Some(payload).
None == [kind |-> "none", arg |-> 0]
is_some(o) == o.kind # "none"
is_none(o) == o.kind = "none"

\* No field: the ordinal of nothing.
NoField == 0 - 1

\* The two marker shapes of one tuple element.
Unset == << >>
Set(x) == << x >>

----------------------------------------------------------------------------
(* The schema: StructInfo::fields, one attribute record per field, and the  *)
(* mutator of the struct.                                                   *)

\* A `default = ...` expression.  It can be a literal, can read an earlier
\* field's binding, or can write to an earlier binding that was declared
\* `mut` (mutable_during_default_resolution) and then yield a literal.
DefaultExprs ==
    {[kind |-> "lit", arg |-> 0]}
      \cup {[kind |-> k, arg |-> j] : k \in {"ref", "bump"}, j \in Ordinals}

\* `via_mutators(init = <literal>)`.
ViaMutators == {[kind |-> "lit", arg |-> 0]}

\* The attributes of one field (FieldInfo::builder_attr and FieldInfo::ty).
\* Attributes the generator never reads for a field are left at their
\* neutral value: a skipped field is not included, so its via_mutators and
\* setter settings are dead, and a via_mutators field gets no setter.
\* mutable_during_default_resolution only adds `mut` to the field's binding
\* in build, so it is given to the fields a later default writes to.
\* A skipped field has a default (FieldSpec invariant).
FieldAttrs ==
    {a \in
        {[skip |-> sk, via_mutators |-> vm, default |-> d,
          mutable_during_default_resolution |-> m,
          strip_option |-> so, auto_into |-> FALSE, strip_bool |-> FALSE,
          transform |-> FALSE, ty |-> IF so THEN "option" ELSE "int"] :
            sk \in BOOLEAN, vm \in ViaMutators \cup {None},
            d \in DefaultExprs \cup {None}, m \in BOOLEAN, so \in BOOLEAN} :
        /\ a.skip => is_some(a.default)
        /\ a.skip => is_none(a.via_mutators) /\ ~a.strip_option
        /\ is_some(a.via_mutators) => ~a.strip_option}

\* The schemas the generated code compiles for: a default reads or writes
\* only the binding of the field before it, of a fitting type.
WellFormed(fs) ==
    \A i \in Ordinals :
        /\ fs[i].default.kind \in {"ref", "bump"} => fs[i].default.arg = i - 1
        /\ fs[i].default.kind = "ref" => fs[fs[i].default.arg].ty = fs[i].ty
        /\ fs[i].default.kind = "bump" => fs[fs[i].default.arg].ty = "int"
        /\ fs[i].mutable_during_default_resolution <=>
              \E j \in Ordinals :
                  fs[j].default.kind = "bump" /\ fs[j].default.arg = i

\* A mutator: the set of field names (ordinals) listed in `requires = [...]`.
\* The struct declares one mutator for every set of names.
Mutators == [required_fields : SUBSET Ordinals, params : {<< >>}]

\* The names a parameter of a mutator function can have: the name of the
\* first field, or a name that is no field's.
FreshName == NumFields
ParamNames == {0, FreshName}

\* Mutators whose function takes, besides `&mut self`, no parameter or one
\* parameter of any of these names.
ArgMutators ==
    [required_fields : SUBSET Ordinals,
     params : {<< >>} \cup {<<name>> : name \in ParamNames}]

\* Mutators whose `requires` lists any field names and possibly a name
\* that no field of the struct has.
NamedMutators ==
    [required_fields : SUBSET (Ordinals \cup {FreshName}), params : {<< >>}]

\* No call of a mutator yet.
NoCall == [names |-> << >>, args |-> << >>]

\* What a caller passes to a mutator: values that are no field's.
MutatorArgValues == {IntV(7), IntV(8)}
MutatorArgLists == {<< >>} \cup {<<a>> : a \in MutatorArgValues}

StructInfos ==
    {[fields |-> fs, mutators |-> Mutators] :
        fs \in {g \in [Ordinals -> FieldAttrs] : WellFormed(g)}}

\* As included_fields, without the filter.
included_fields_all(info) == Ordinals

\* StructInfo::included_fields
included_fields(info) == {i \in Ordinals : ~info.fields[i].skip}

\* StructInfo::setter_fields
setter_fields(info) ==
    {i \in included_fields(info) : is_none(info.fields[i].via_mutators)}

\* As required_fields, without the filter on the default.
required_fields_unfiltered(info) == setter_fields(info)

\* As required_fields, over the included fields.
required_fields_included(info) ==
    {i \in included_fields(info) : is_none(info.fields[i].default)}

\* The filter of impl_my_derive: the fields that get a missing-field overload.
required_fields(info) ==
    {i \in setter_fields(info) : is_none(info.fields[i].default)}

----------------------------------------------------------------------------
(* Tuple patterns.  An impl block names, for every included field, the      *)
(* tuple element it is written for: "unset" is empty_type() `()`, "set" is  *)
(* tuplized_type_ty_param() `(T,)`, "generic" is type_ident(), a type       *)
(* parameter of the impl block.                                             *)

\* A tuple value (one marker per included field) has the type a pattern
\* denotes.  A generic element stands for either marker (build bounds its
\* generic elements by `Optional<T>`, implemented for `()` and `(T,)`).
Matches(pat, tuple) ==
    \A i \in DOMAIN pat :
        /\ pat[i] = "unset" => tuple[i] = Unset
        /\ pat[i] = "set" => Len(tuple[i]) = 1
        /\ pat[i] = "generic" => Len(tuple[i]) \in {0, 1}

\* builder_creation_impl: the default of TypedBuilderFields and the return
\* type of the entry point.
init_fields_type(info) ==
    [i \in included_fields(info) |->
        IF is_some(info.fields[i].via_mutators) THEN "set" ELSE "unset"]

\* As field_ty_generics, with the field's own element generic too.
field_ty_generics_open(info, field) ==
    [i \in included_fields(info) |-> "generic"]

\* field_impl: the impl block of the setter of `field`.
field_ty_generics(info, field) ==
    [i \in included_fields(info) |-> IF i = field THEN "unset" ELSE "generic"]

\* field_impl: the setter's return type, also the impl block of the
\* repeated-field overload.
field_target_generics(info, field) ==
    [i \in included_fields(info) |-> IF i = field THEN "set" ELSE "generic"]

\* As required_builder_generics, with the earlier required fields left
\* generic instead of pinned to their Set marker.
required_builder_generics_unpinned(info, field) ==
    [i \in included_fields(info) |-> IF i = field THEN "unset" ELSE "generic"]

\* required_field_impl: the impl block of the missing-field overload of
\* `field`.
required_builder_generics(info, field) ==
    [i \in included_fields(info) |->
        IF is_some(info.fields[i].default) \/ is_some(info.fields[i].via_mutators)
        THEN "generic"
        ELSE IF i < field THEN "set"
        ELSE IF i = field THEN "unset"
        ELSE "generic"]

\* As mutator_destructure_fields, without the `requires` names.
mutator_destructure_fields_via_only(info, m) ==
    {i \in included_fields(info) : is_some(info.fields[i].via_mutators)}

\* mutator_impl: the fields the mutator struct exposes.
mutator_destructure_fields(info, m) ==
    {i \in included_fields(info) :
        is_some(info.fields[i].via_mutators) \/ i \in m.required_fields}

\* mutator_impl: the impl block of the mutator.
mutator_ty_generics(info, m) ==
    [i \in included_fields(info) |->
        IF i \in mutator_destructure_fields(info, m) THEN "set" ELSE "generic"]

\* As build_ty_generics, with the two branches exchanged.
build_ty_generics_swapped(info) ==
    [i \in included_fields(info) |->
        IF is_some(info.fields[i].default) THEN "set" ELSE "generic"]

\* build_method_impl: the impl block of build.
build_ty_generics(info) ==
    [i \in included_fields(info) |->
        IF is_some(info.fields[i].default) THEN "generic" ELSE "set"]

----------------------------------------------------------------------------
(* The bodies of the generated methods.                                     *)

\* `.into()` of a setter argument where a value of type ty is expected: a
\* value of a type that converts to T becomes the T it converts to, a T
\* becomes Some(T) where an Option<T> is expected, and a value of the
\* expected type is itself.
Into(x, ty) ==
    IF ty = "int" THEN IntV(x.v)
    ELSE IF x.tag = "int" THEN SomeV(x.v) ELSE x

\* `Some(x)`.
Some(x) == SomeV(x.v)

\* The body of a `transform = |x| ...` closure.
TransformBody(x) == IntV(x.v + 10)

\* FieldInfo::type_from_inside_option: T of a field declared Option<T>.
type_from_inside_option(attr) == IF attr.ty = "option" THEN "int" ELSE "none"

\* field_impl: arg_type before auto_into, the type inside the Option of a
\* strip_option field with no transform and the type of the field
\* otherwise.
arg_type(attr) ==
    IF attr.strip_option /\ ~attr.transform
    THEN type_from_inside_option(attr)
    ELSE attr.ty

\* As arg_expr, without the `Some(..)` of strip_option.
arg_expr_unwrapped(attr, arg) ==
    IF attr.strip_bool THEN BoolV(1)
    ELSE IF attr.transform THEN TransformBody(arg)
    ELSE IF attr.auto_into THEN Into(arg, arg_type(attr)) ELSE arg

\* As arg_expr, with strip_option looked at before transform.
arg_expr_strip_first(attr, arg) ==
    LET inner == IF attr.auto_into THEN Into(arg, arg_type(attr)) ELSE arg
    IN  IF attr.strip_bool THEN BoolV(1)
        ELSE IF attr.strip_option THEN Some(inner)
        ELSE IF attr.transform THEN TransformBody(arg)
        ELSE inner

\* field_impl: the expression the setter stores, by the precedence
\* strip_bool, transform, strip_option, (auto_into), plain.
arg_expr(attr, arg) ==
    LET inner == IF attr.auto_into THEN Into(arg, arg_type(attr)) ELSE arg
    IN  IF attr.strip_bool THEN BoolV(1)
        ELSE IF attr.transform THEN TransformBody(arg)
        ELSE IF attr.strip_option THEN Some(inner)
        ELSE inner

\* The parameter of a `transform = |x: T| ...` closure.
TransformParams == [into |-> FALSE, ty |-> "int"]

\* field_impl: the parameter list of the setter: none for strip_bool, the
\* transform's, or one parameter of arg_type or of `impl Into<arg_type>`.
param_list(attr) ==
    IF attr.strip_bool THEN [into |-> FALSE, ty |-> "none"]
    ELSE IF attr.transform THEN TransformParams
    ELSE [into |-> attr.auto_into, ty |-> arg_type(attr)]

\* A call with the argument arg type-checks against the parameter list.
Accepts(params, arg) ==
    IF params.ty = "none" THEN arg = NoArg
    ELSE IF params.ty = "int"
         THEN arg.tag = "int" \/ (params.into /\ arg.tag = "from")
         ELSE arg.tag \in {"some", "none"} \/ (params.into /\ arg.tag = "int")

\* As init_fields_expr, with `()` for every field.
init_fields_expr_empty(info) == [i \in included_fields(info) |-> Unset]

\* builder_creation_impl: the tuple of the initial builder.
init_fields_expr(info) ==
    [i \in included_fields(info) |->
        IF is_some(info.fields[i].via_mutators)
        THEN Set(IntV(info.fields[i].via_mutators.arg))
        ELSE Unset]

\* As setter_body, rebuilding the other elements from the initial tuple.
setter_body_fresh(info, tuple, field, arg) ==
    [i \in included_fields(info) |->
        IF i = field THEN Set(arg_expr(info.fields[field], arg))
        ELSE init_fields_expr(info)[i]]

\* field_impl: the setter body.  `let name = (arg_expr,)`, destructure
\* self.fields with `()` in the field's place, rebuild the tuple by name.
setter_body(info, tuple, field, arg) ==
    [i \in included_fields(info) |->
        IF i = field THEN Set(arg_expr(info.fields[field], arg)) ELSE tuple[i]]

\* As repeated_body, returning the builder with the field's marker emptied.
repeated_body_emptied(info, tuple, field) == [tuple EXCEPT ![field] = Unset]

\* field_impl: the body of the repeated-field overload, `self`.
repeated_body(info, tuple, field) == tuple

\* The mutator function of the struct: it raises every field of the
\* mutator struct that is below 3 by 3, inside Some(..) for an Option, so
\* that a value it wrote is no value a caller passed and no literal.
Raised(x) == IF x.tag # "none" /\ x.v < 3 THEN [x EXCEPT !.v = @ + 3] ELSE x

mutator_fn(struct) == [i \in DOMAIN struct |-> Raised(struct[i])]

\* Mutator::arguments: the names of the parameters of the mutator
\* function, which are the parameters of the generated method too.
mutator_args(m) == m.params

\* The bindings of the parameters of a call with the arguments args;
\* also `let (#mutator_args) = __args;`.
Parameters(m, args) ==
    [name \in {mutator_args(m)[n] : n \in DOMAIN mutator_args(m)} |->
        args[CHOOSE n \in DOMAIN mutator_args(m) : mutator_args(m)[n] = name]]

\* mutator_impl: `let __args = (#mutator_args);`
args_tuple(m, scope_) ==
    [n \in DOMAIN mutator_args(m) |-> scope_[mutator_args(m)[n]]]

\* mutator_impl: `let ( #destructuring ) = self.fields;` binds the name of
\* every included field, to its value where the mutator struct exposes it
\* and to its marker elsewhere, over whatever the name was bound to.
destructuring(info, tuple, m, scope_) ==
    [i \in included_fields(info) |->
        IF i \in mutator_destructure_fields(info, m) THEN tuple[i][1]
        ELSE tuple[i]] @@ scope_

\* As call_args, without the block that binds the parameters again.
call_args_shadowed(m, __args, scope_) == args_tuple(m, scope_)

\* mutator_impl: the arguments of `__mutator.#fn_name(#mutator_args)` in
\* the block that opens with `let (#mutator_args) = __args;`.
call_args(m, __args, scope_) ==
    args_tuple(m, Parameters(m, __args) @@ scope_)

\* mutator_impl: what the mutator function is called with, for a call of
\* the generated method with the arguments args.
mutator_received(info, tuple, m, args) ==
    LET __args == args_tuple(m, Parameters(m, args))
    IN  call_args(m, __args,
                  destructuring(info, tuple, m, Parameters(m, args)))

\* As mutator_body, writing back the required fields only.
mutator_body_required_only(info, tuple, m, args) ==
    [i \in included_fields(info) |->
        IF i \in m.required_fields THEN Set(Raised(tuple[i][1]))
        ELSE IF is_some(info.fields[i].via_mutators) THEN Unset
        ELSE tuple[i]]

\* As mutator_body, with every field that is Set moved into the mutator
\* struct.
mutator_body_all_set(info, tuple, m, args) ==
    [i \in included_fields(info) |->
        IF Len(tuple[i]) = 1 THEN Set(Raised(tuple[i][1])) ELSE tuple[i]]

\* mutator_impl: destructure self.fields, move the exposed fields into the
\* mutator struct, run the mutator function on it in a block of its own,
\* destructure the struct over the bindings of the fields and rebuild the
\* tuple by name.
mutator_body(info, tuple, m, args) ==
    LET bound == destructuring(info, tuple, m, Parameters(m, args))
        __mutator == [i \in mutator_destructure_fields(info, m) |-> bound[i]]
        after == mutator_fn(__mutator) @@ bound
    IN  [i \in included_fields(info) |->
            IF i \in mutator_destructure_fields(info, m) THEN Set(after[i])
            ELSE after[i]]

\* The value a literal default expression has for a field of type ty.
LitValue(ty) == IF ty = "option" THEN NoneV ELSE IntV(0)

\* Evaluation of a default expression with the bindings `vals` in scope:
\* the bindings after it ran and the value it yields.
eval_default(attr, vals) ==
    LET d == attr.default
    IN  IF d.kind = "ref" THEN [vals |-> vals, value |-> vals[d.arg]]
        ELSE IF d.kind = "bump"
        THEN [vals |-> [vals EXCEPT ![d.arg] = IntV(@.v + 1)],
              value |-> LitValue(attr.ty)]
        ELSE [vals |-> vals, value |-> LitValue(attr.ty)]

\* Optional::into_value(marker, default): `()` calls the default closure,
\* `(T,)` yields its element and drops the closure.
into_value_calls_default(marker) == marker = Unset

\* As assignment, with the default expression written out in the `let` of
\* every field that has one.
assignment_eager(info, tuple, st, k) ==
    LET attr == info.fields[k]
        ev == eval_default(attr, st.vals)
    IN  IF is_some(attr.default)
        THEN [st EXCEPT !.vals = ev.vals @@ (k :> ev.value),
                        !.evals = [@ EXCEPT ![k] = @ + 1]]
        ELSE [st EXCEPT !.vals = @ @@ (k :> tuple[k][1])]

\* build_method_impl: one `let` of the assignments.  st.vals holds the
\* bindings made so far, st.evals counts the evaluations of each default.
assignment(info, tuple, st, k) ==
    LET attr == info.fields[k]
        ev == eval_default(attr, st.vals)
        evaluated == [st EXCEPT !.vals = ev.vals @@ (k :> ev.value),
                                !.evals = [@ EXCEPT ![k] = @ + 1]]
    IN  IF is_some(attr.default)
        THEN IF attr.skip
             THEN evaluated
             ELSE IF into_value_calls_default(tuple[k])
                  THEN evaluated
                  ELSE [st EXCEPT !.vals = @ @@ (k :> tuple[k][1])]
        ELSE [st EXCEPT !.vals = @ @@ (k :> tuple[k][1])]

\* As field_order, with the included fields only.
field_order_included(info) ==
    [n \in 1 .. Cardinality(included_fields(info)) |->
        CHOOSE i \in included_fields(info) :
            Cardinality({j \in included_fields(info) : j < i}) = n - 1]

\* build_method_impl: `self.fields.iter()`, the fields of the struct, which
\* StructInfo::new collected as they are declared.
field_order(info) == [n \in 1 .. NumFields |-> n - 1]

RECURSIVE assignments(_, _, _, _)
\* build_method_impl: the `let`s of the n-th, n+1-th, ... field of
\* field_order, one after the other.  st.scope notes, for the field of each
\* `let`, the fields whose `let` had run before it.
assignments(info, tuple, st, n) ==
    IF n > Len(field_order(info)) THEN st
    ELSE LET k == field_order(info)[n]
             seen == [st EXCEPT !.scope = [@ EXCEPT ![k] = DOMAIN st.vals]]
         IN  assignments(info, tuple, assignment(info, tuple, seen, k), n + 1)

\* build_method_impl: the body of build.
build_body(info, tuple) ==
    assignments(info, tuple,
                [vals |-> << >>, evals |-> [i \in Ordinals |-> 0],
                 scope |-> [i \in Ordinals |-> {}]], 1)

----------------------------------------------------------------------------
(* The derive.  impl_my_derive turns the derive input into the fragments    *)
(* of the generated code, or into one error.                                *)

\* syn::Result: Ok(tokens) or Err(error).
Ok(tokens) == [ok |-> TRUE, value |-> tokens, error |-> ""]
Err(message) == [ok |-> FALSE, value |-> {}, error |-> message]

\* One item of the generated code: the builder method, the builder type,
\* its Clone impl, the setter of a field and its repeated-field overload,
\* the missing-field overload of a field, a mutator, build.
Fragment(kind, field, mutator, qualifier) ==
    [kind |-> kind, field |-> field, mutator |-> mutator,
     qualifier |-> qualifier]

RECURSIVE builder_method_const_set(_, _, _)
\* builder_creation_impl: the OnceCell after the closure of
\* init_fields_expr has run for the included fields k, k+1, ...: it is set
\* (to no qualifier) at the first initializer that is not an Expr::Lit, and
\* a later `set` leaves it as it is.
builder_method_const_set(info, cell, k) ==
    IF k >= NumFields THEN cell
    ELSE IF /\ k \in included_fields(info)
            /\ is_some(info.fields[k].via_mutators)
            /\ info.fields[k].via_mutators.kind # "lit"
         THEN builder_method_const_set(
                  info, IF cell = Unset THEN Set("") ELSE cell, k + 1)
         ELSE builder_method_const_set(info, cell, k + 1)

\* As builder_method_const, with the closure run for every field of the
\* struct.
builder_method_const_all_fields(info) ==
    IF \E k \in Ordinals :
          /\ is_some(info.fields[k].via_mutators)
          /\ info.fields[k].via_mutators.kind # "lit"
    THEN "" ELSE "const"

\* builder_creation_impl: the qualifier of the builder method,
\* `unwrap_or_else(|| quote!(const))` of the cell.
builder_method_const(info) ==
    LET cell == builder_method_const_set(info, Unset, 0)
    IN  IF cell = Unset THEN "const" ELSE cell[1]

\* builder_creation_impl: the builder method, the builder type and its
\* Clone impl.
builder_creation_impl(info) ==
    Ok({Fragment("builder_method", NoField, {}, builder_method_const(info)),
        Fragment("builder_type", NoField, {}, ""),
        Fragment("clone_impl", NoField, {}, "")})

\* As field_impl, with the type of a strip_option field not looked at.
field_impl_unchecked(info, field) ==
    Ok({Fragment("setter", field, {}, ""),
        Fragment("repeated", field, {}, "")})

\* field_impl: the setter of `field` and its repeated-field overload, or
\* the error of a strip_option field (with no transform) that is no Option.
field_impl(info, field) ==
    LET attr == info.fields[field]
    IN  IF /\ attr.strip_option /\ ~attr.transform
           /\ type_from_inside_option(attr) = "none"
        THEN Err("can't strip_option - field is not Option<...>")
        ELSE Ok({Fragment("setter", field, {}, ""),
                 Fragment("repeated", field, {}, "")})

\* A function that returns tokens, or panics at a failed assertion.
Returned(tokens) == [panicked |-> FALSE, tokens |-> tokens, message |-> ""]
Panicked(message) == [panicked |-> TRUE, tokens |-> {}, message |-> message]

\* required_field_impl: the missing-field overload of `field`.  The loop
\* over the included fields asserts, in the branch of the fields with a
\* default or via_mutators, that the field at hand is not `field`.
required_field_impl(info, field) ==
    IF \E f \in included_fields(info) :
          /\ is_some(info.fields[f].default)
                \/ is_some(info.fields[f].via_mutators)
          /\ f = field
    THEN Panicked("required_field_impl called for optional field")
    ELSE Returned({Fragment("missing", field, {}, "")})

\* As mutator_impl, with an error for a name in `requires` that the loop
\* over the included fields has not removed.
mutator_impl_strict(info, m) ==
    IF m.required_fields \subseteq included_fields(info)
    THEN Ok({Fragment("mutator", NoField, m.required_fields, "")})
    ELSE Err("unknown field in requires")

\* mutator_impl: the mutator method.  What is left of the clone of
\* required_fields after the loop over the included fields is dropped.
mutator_impl(info, m) == Ok({Fragment("mutator", NoField, m.required_fields, "")})

\* build_method_impl: the build method.
build_method_impl(info) == {Fragment("build", NoField, {}, "")}

RECURSIVE collect(_, _, _)
\* `.map(|f| struct_info.field_impl(f)).collect::<Result<TokenStream, _>>()`
\* over the setter fields k, k+1, ...: the fragments of all of them, or
\* the first error.
collect(info, tokens, k) ==
    IF k >= NumFields THEN Ok(tokens)
    ELSE IF k \notin setter_fields(info) THEN collect(info, tokens, k + 1)
    ELSE LET r == field_impl(info, k)
         IN  IF r.ok THEN collect(info, tokens \cup r.value, k + 1) ELSE r

\* The attributes of one field of a derive input: those of FieldAttrs that
\* a generation step reads, with initializers that are no literal and
\* strip_option fields of both kinds of type.
DeriveFieldAttrs ==
    {a \in [skip : BOOLEAN,
            via_mutators : {None, [kind |-> "lit", arg |-> 0],
                            [kind |-> "call", arg |-> 0]},
            default : {None, [kind |-> "lit", arg |-> 0]},
            mutable_during_default_resolution : {FALSE},
            strip_option : BOOLEAN, auto_into : {FALSE},
            strip_bool : {FALSE}, transform : {FALSE},
            ty : {"int", "option"}] :
        /\ a.skip => is_some(a.default)
        /\ (a.skip \/ is_some(a.via_mutators)) => ~a.strip_option
        /\ ~a.strip_option => a.ty = "int"}

\* syn::Data and syn::Fields: what the derive can be applied to.
DataKinds == {"named", "unnamed", "unit", "enum", "union"}

\* The derive input: the kind of item, whether TypeBuilderAttr::new and
\* FieldInfo::new accept its attributes, and for a struct with named fields
\* the attributes of its fields and its mutators.
DeriveInputs ==
    [data : {"named"}, attrs_ok : BOOLEAN,
     fields : [Ordinals -> DeriveFieldAttrs], mutators : {Mutators}]
      \cup [data : DataKinds \ {"named"}, attrs_ok : {TRUE},
            fields : {<< >>}, mutators : {{}}]

\* No derive input, no StructInfo, no output: the value of the derive's
\* variables where they are out of scope.
NoInput ==
    [data |-> "none", attrs_ok |-> TRUE, fields |-> << >>, mutators |-> {}]
NoStructInfo == [fields |-> << >>, mutators |-> {}]
NoOutput == [kind |-> "none", tokens |-> {}, error |-> ""]

\* StructInfo::new: the error of TypeBuilderAttr::new or of a FieldInfo::new,
\* or the StructInfo.
StructInfo_new(input) ==
    IF ~input.attrs_ok THEN Err("attribute error")
    ELSE [ok |-> TRUE, error |-> "",
          value |-> [fields |-> input.fields, mutators |-> input.mutators]]

\* impl_my_derive: the errors of the arms for the other kinds of item.
unsupported(data) ==
    IF data = "unnamed" THEN "TypedBuilder is not supported for tuple structs"
    ELSE IF data = "unit" THEN "TypedBuilder is not supported for unit structs"
    ELSE IF data = "enum" THEN "TypedBuilder is not supported for enums"
    ELSE "TypedBuilder is not supported for unions"

\* impl_my_derive: `.map(|m| struct_info.mutator_impl(m)).collect()`.
collect_mutators(info) ==
    IF \E m \in info.mutators : ~mutator_impl(info, m).ok
    THEN mutator_impl(info,
                      CHOOSE m \in info.mutators : ~mutator_impl(info, m).ok)
    ELSE Ok(UNION {mutator_impl(info, m).value : m \in info.mutators})

----------------------------------------------------------------------------
(* Ownership.  The builder type is a struct that implements Clone and not   *)
(* Copy, and the generated methods name their receiver.  A value passed by  *)
(* value is moved out of the caller's binding; a value passed by reference  *)
(* stays with the caller.                                                   *)

\* The traits the generated code implements for the builder type.
builder_traits == {"Clone"}

\* As self_param, with the receiver borrowed.
self_param_borrowed(method) == "&self"

\* The receiver in the signature of a generated method: the setter, the
\* repeated-field overload, the missing-field overload and build.
self_param(method) == "self"

\* The receiver in the outer signature of a mutator.
outer_sig_receiver == "self"

\* A binding of builder type in the caller: unbound (never bound, or moved
\* out of), or holding a builder value and the arguments that made it.
Unbound == [status |-> "unbound", fields |-> << >>, given |-> << >>]
Live(tuple, args) == [status |-> "live", fields |-> tuple, given |-> args]

\* What the caller keeps of the receiver `value` of a call whose signature
\* names the receiver `param`, next to what it kept before (`kept`).
kept_after_call(param, kept, value) ==
    IF param = "self" /\ "Copy" \notin builder_traits THEN kept ELSE value

----------------------------------------------------------------------------
(* A call chain on the generated builder.                                   *)

VARIABLES
    struct_info,  \* the schema the macro was applied to
    pc,           \* "start": no builder yet; "chain": a builder value is
                  \* live; "built": build returned; "rejected": the chain
                  \* ended in a missing-field overload (`-> !`)
    fields,       \* the `fields` tuple of the live builder
    given,        \* per field, the argument its setter was called with
    last,         \* the method the last call resolved to
    result,       \* the struct build returned
    evals,        \* per field, how often build evaluated its default
    diagnostic,   \* the field the "Missing required field" note names
    held,         \* the other builder the caller holds: a clone it took,
                  \* or the receiver of a call that did not consume it
    ast,          \* the item the derive is applied to
    fragments,    \* the fragments impl_my_derive has generated so far
    output,       \* the tokens derive_typed_builder returned
    scope,        \* per field, the fields build had bound before it
    passed,       \* the last call of a mutator: parameter names, arguments
    received      \* what that call passed to the mutator function

vars == <<struct_info, pc, fields, given, last, result, evals, diagnostic,
          held, ast, fragments, output, scope,
          passed, received>>

\* The variables of the derive and those of a call chain.
derive_vars == <<ast, fragments, output>>
chain_vars ==
    <<fields, given, last, result, evals, diagnostic, held, scope,
      passed, received>>

\* As derive_typed_builder, with the fragments generated before the error
\* next to it.
derive_typed_builder_partial(r) ==
    IF r.ok THEN [kind |-> "tokens", tokens |-> r.value, error |-> ""]
    ELSE [kind |-> "compile_error", tokens |-> fragments, error |-> r.error]

\* A panic in the derive unwinds through impl_my_derive and
\* derive_typed_builder: the derive has no tokens to return.
proc_macro_panicked(r) ==
    [kind |-> "panicked", tokens |-> {}, error |-> r.message]

\* derive_typed_builder: the output of impl_my_derive where it is Ok, and
\* the compile error of its error where it is Err.
derive_typed_builder(r) ==
    IF r.ok THEN [kind |-> "tokens", tokens |-> r.value, error |-> ""]
    ELSE [kind |-> "compile_error", tokens |-> {}, error |-> r.error]

Init ==
    /\ struct_info \in StructInfos
    /\ pc = "start"
    /\ fields = << >>
    /\ given = [i \in Ordinals |-> Unset]
    /\ last = "none"
    /\ result = << >>
    /\ evals = [i \in Ordinals |-> 0]
    /\ diagnostic = NoField
    /\ held = Unbound
    /\ scope = [i \in Ordinals |-> {}]
    /\ passed = NoCall
    /\ received = << >>
    /\ ast = NoInput
    /\ fragments = {}
    /\ output = NoOutput

\* `Struct::builder()`
Builder ==
    /\ pc = "start"
    /\ pc' = "chain"
    /\ fields' = init_fields_expr(struct_info)
    /\ last' = "builder"
    /\ UNCHANGED <<struct_info, given, result, evals, diagnostic, held>>
    /\ UNCHANGED <<derive_vars, scope, passed, received>>

\* `.field(arg)` where the setter's impl block matches.
Setter(f, arg) ==
    /\ pc = "chain"
    /\ f \in setter_fields(struct_info)
    /\ Matches(field_ty_generics(struct_info, f), fields)
    /\ Accepts(param_list(struct_info.fields[f]), arg)
    /\ fields' = setter_body(struct_info, fields, f, arg)
    /\ given' = [given EXCEPT ![f] = Set(arg)]
    /\ last' = "setter"
    /\ held' = kept_after_call(self_param("setter"), held, Live(fields, given))
    /\ UNCHANGED <<struct_info, pc, result, evals, diagnostic>>
    /\ UNCHANGED <<derive_vars, scope, passed, received>>

\* `.field(..)` where the impl block of the repeated-field overload matches:
\* the call resolves to the deprecated method, whose parameter type is an
\* empty enum and whose return type is the type of `self`.
RepeatedSetter(f) ==
    /\ pc = "chain"
    /\ f \in setter_fields(struct_info)
    /\ Matches(field_target_generics(struct_info, f), fields)
    /\ fields' = repeated_body(struct_info, fields, f)
    /\ last' = "repeated"
    /\ held' = kept_after_call(self_param("repeated"), held, Live(fields, given))
    /\ UNCHANGED <<struct_info, pc, given, result, evals, diagnostic>>
    /\ UNCHANGED <<derive_vars, scope, passed, received>>

\* `.mutator(args)` where the mutator's impl block matches.
MutatorCall(m, args) ==
    /\ pc = "chain"
    /\ m \in struct_info.mutators
    /\ Matches(mutator_ty_generics(struct_info, m), fields)
    /\ Len(args) = Len(mutator_args(m))
    /\ fields' = mutator_body(struct_info, fields, m, args)
    /\ passed' = [names |-> mutator_args(m), args |-> args]
    /\ received' = mutator_received(struct_info, fields, m, args)
    /\ last' = "mutator"
    /\ held' = kept_after_call(outer_sig_receiver, held, Live(fields, given))
    /\ UNCHANGED <<struct_info, pc, given, result, evals, diagnostic>>
    /\ UNCHANGED <<derive_vars, scope>>

\* `.build()` where the impl block of a missing-field overload matches: the
\* call resolves to the deprecated method of field f, which returns `!`.
MissingFieldBuild(f) ==
    /\ pc = "chain"
    /\ f \in required_fields(struct_info)
    /\ Matches(required_builder_generics(struct_info, f), fields)
    /\ pc' = "rejected"
    /\ last' = "missing"
    /\ held' = kept_after_call(self_param("missing"), held, Live(fields, given))
    /\ diagnostic' = f
    /\ UNCHANGED <<struct_info, fields, given, result, evals>>
    /\ UNCHANGED <<derive_vars, scope, passed, received>>

\* `.build()` where the impl block of build matches.
Build ==
    /\ pc = "chain"
    /\ Matches(build_ty_generics(struct_info), fields)
    /\ pc' = "built"
    /\ result' = build_body(struct_info, fields).vals
    /\ evals' = build_body(struct_info, fields).evals
    /\ scope' = build_body(struct_info, fields).scope
    /\ UNCHANGED <<passed, received>>
    /\ last' = "build"
    /\ held' = kept_after_call(self_param("build"), held, Live(fields, given))
    /\ UNCHANGED <<struct_info, fields, given, diagnostic>>
    /\ UNCHANGED derive_vars

Next ==
    \/ Builder
    \/ \E f \in Ordinals, arg \in ArgValues : Setter(f, arg)
    \/ \E f \in Ordinals : RepeatedSetter(f)
    \/ \E m \in Mutators, args \in MutatorArgLists : MutatorCall(m, args)
    \/ \E f \in Ordinals : MissingFieldBuild(f)
    \/ Build

Spec == Init /\ [][Next]_vars

\* Chains of ordinary setter calls closed by build.
NextSetters ==
    \/ Builder
    \/ \E f \in Ordinals, arg \in ArgValues : Setter(f, arg)
    \/ Build

SetterChain == Init /\ [][NextSetters]_vars

\* Structs whose mutator functions take parameters.  A mutator reads of a
\* field whether it is skipped and whether it is via_mutators, so the
\* fields are plain ones, via_mutators ones and skipped ones.
ArgStructInfos ==
    {[info EXCEPT !.mutators = ArgMutators] :
        info \in {i \in StructInfos :
                    \A k \in Ordinals :
                        /\ ~i.fields[k].strip_option
                        /\ is_some(i.fields[k].default) <=> i.fields[k].skip}}

MutatorArgsInit ==
    /\ struct_info \in ArgStructInfos
    /\ pc = "start"
    /\ fields = << >>
    /\ given = [i \in Ordinals |-> Unset]
    /\ last = "none"
    /\ result = << >>
    /\ evals = [i \in Ordinals |-> 0]
    /\ diagnostic = NoField
    /\ held = Unbound
    /\ scope = [i \in Ordinals |-> {}]
    /\ passed = NoCall
    /\ received = << >>
    /\ ast = NoInput
    /\ fragments = {}
    /\ output = NoOutput

\* Chains of setter calls and of calls of mutators with arguments.
NextMutatorArgs ==
    \/ Builder
    \/ \E f \in Ordinals, arg \in ArgValues : Setter(f, arg)
    \/ \E m \in ArgMutators, args \in MutatorArgLists : MutatorCall(m, args)

MutatorArgs == MutatorArgsInit /\ [][NextMutatorArgs]_vars

\* `let template = Struct::builder().clone();`: Clone::clone borrows the
\* builder and returns one with a clone of its `fields`.  The caller keeps
\* the copy of the initial builder.
Clone ==
    /\ pc = "chain" /\ last = "builder"
    /\ "Clone" \in builder_traits
    /\ held = Unbound
    /\ held' = Live(fields, given)
    /\ UNCHANGED <<struct_info, pc, fields, given, last, result, evals,
                   diagnostic>>
    /\ UNCHANGED <<derive_vars, scope, passed, received>>

\* `let builder = template;`: the caller moves the builder it held into the
\* place of the live one and follows its chain; result, evals, scope,
\* passed, received and diagnostic are those of the chain followed.
Resume ==
    /\ pc \in {"chain", "built", "rejected"}
    /\ held.status = "live"
    /\ pc' = "chain"
    /\ fields' = held.fields
    /\ given' = held.given
    /\ held' = Unbound
    /\ last' = "resume"
    /\ result' = << >>
    /\ evals' = [i \in Ordinals |-> 0]
    /\ scope' = [i \in Ordinals |-> {}]
    /\ passed' = NoCall
    /\ received' = << >>
    /\ diagnostic' = NoField
    /\ UNCHANGED struct_info
    /\ UNCHANGED derive_vars

\* Call chains of a caller that can keep a clone of the initial builder.
NextOwnership ==
    \/ Builder
    \/ Clone
    \/ \E f \in Ordinals, arg \in ArgValues : Setter(f, arg)
    \/ \E f \in Ordinals : RepeatedSetter(f)
    \/ \E m \in Mutators, args \in MutatorArgLists : MutatorCall(m, args)
    \/ \E f \in Ordinals : MissingFieldBuild(f)
    \/ Build
    \/ Resume

Ownership == Init /\ [][NextOwnership]_vars

----------------------------------------------------------------------------
(* The derive, step by step.  `?` returns the error of a step from          *)
(* impl_my_derive, whose locals (the fragments generated so far) are        *)
(* dropped; derive_typed_builder makes the output of what it returns.       *)

DeriveInit ==
    /\ ast \in DeriveInputs
    /\ struct_info = NoStructInfo
    /\ pc = "impl_my_derive"
    /\ fragments = {}
    /\ output = NoOutput
    /\ fields = << >>
    /\ given = [i \in Ordinals |-> Unset]
    /\ last = "none"
    /\ result = << >>
    /\ evals = [i \in Ordinals |-> 0]
    /\ diagnostic = NoField
    /\ held = Unbound
    /\ scope = [i \in Ordinals |-> {}]
    /\ passed = NoCall
    /\ received = << >>

\* impl_my_derive: the arms for tuple structs, unit structs, enums and
\* unions.
Unsupported ==
    /\ pc = "impl_my_derive"
    /\ ast.data # "named"
    /\ pc' = "done"
    /\ fragments' = {}
    /\ output' = derive_typed_builder(Err(unsupported(ast.data)))
    /\ UNCHANGED <<struct_info, ast>>
    /\ UNCHANGED chain_vars

\* impl_my_derive: `StructInfo::new(ast, fields.named.iter())?`.
StructInfoNew ==
    /\ pc = "impl_my_derive"
    /\ ast.data = "named"
    /\ LET r == StructInfo_new(ast)
       IN  /\ pc' = IF r.ok THEN "builder_creation" ELSE "done"
           /\ struct_info' = IF r.ok THEN r.value ELSE struct_info
           /\ fragments' = {}
           /\ output' = IF r.ok THEN output ELSE derive_typed_builder(r)
    /\ UNCHANGED ast
    /\ UNCHANGED chain_vars

\* impl_my_derive: `struct_info.builder_creation_impl()?`.
BuilderCreation ==
    /\ pc = "builder_creation"
    /\ LET r == builder_creation_impl(struct_info)
       IN  /\ pc' = IF r.ok THEN "fields" ELSE "done"
           /\ fragments' = IF r.ok THEN fragments \cup r.value ELSE {}
           /\ output' = IF r.ok THEN output ELSE derive_typed_builder(r)
    /\ UNCHANGED <<struct_info, ast>>
    /\ UNCHANGED chain_vars

\* impl_my_derive: field_impl of the setter fields, collected, `?`.
FieldImpls ==
    /\ pc = "fields"
    /\ LET r == collect(struct_info, {}, 0)
       IN  /\ pc' = IF r.ok THEN "mutators" ELSE "done"
           /\ fragments' = IF r.ok THEN fragments \cup r.value ELSE {}
           /\ output' = IF r.ok THEN output ELSE derive_typed_builder(r)
    /\ UNCHANGED <<struct_info, ast>>
    /\ UNCHANGED chain_vars

\* impl_my_derive: mutator_impl of the mutators, collected, `?`.
MutatorImpls ==
    /\ pc = "mutators"
    /\ LET r == collect_mutators(struct_info)
       IN  /\ pc' = IF r.ok THEN "build_method" ELSE "done"
           /\ fragments' = IF r.ok THEN fragments \cup r.value ELSE {}
           /\ output' = IF r.ok THEN output ELSE derive_typed_builder(r)
    /\ UNCHANGED <<struct_info, ast>>
    /\ UNCHANGED chain_vars

\* impl_my_derive: build_method_impl and the `quote!` of all fragments, in
\* which the iterator of required_field_impl over the setter fields with no
\* default is run; `Ok(data)`, unless a required_field_impl panicked.
BuildMethodAndQuote ==
    /\ pc = "build_method"
    /\ LET build_method == build_method_impl(struct_info)
           required == {required_field_impl(struct_info, f) :
                           f \in required_fields(struct_info)}
           data == fragments \cup UNION {r.tokens : r \in required}
                             \cup build_method
       IN  /\ pc' = "done"
           /\ fragments' = {}
           /\ output' = IF \E r \in required : r.panicked
                        THEN proc_macro_panicked(
                                 CHOOSE r \in required : r.panicked)
                        ELSE derive_typed_builder(Ok(data))
    /\ UNCHANGED <<struct_info, ast>>
    /\ UNCHANGED chain_vars

DeriveNext ==
    \/ Unsupported
    \/ StructInfoNew
    \/ BuilderCreation
    \/ FieldImpls
    \/ MutatorImpls
    \/ BuildMethodAndQuote

Derive == DeriveInit /\ [][DeriveNext]_vars

----------------------------------------------------------------------------
(* The setters of fields with setter options: the derive of a struct, and   *)
(* calls of the setters it generated.                                       *)

\* The attributes of a setter field with no default, with any combination
\* of the setter options, on a field that is an Option or not.
SetterFieldAttrs ==
    [skip : {FALSE}, via_mutators : {None}, default : {None},
     mutable_during_default_resolution : {FALSE},
     strip_option : BOOLEAN, auto_into : BOOLEAN, strip_bool : BOOLEAN,
     transform : BOOLEAN, ty : {"int", "option"}]

\* A field with no setter option.
PlainField ==
    [skip |-> FALSE, via_mutators |-> None, default |-> None,
     mutable_during_default_resolution |-> FALSE,
     strip_option |-> FALSE, auto_into |-> FALSE, strip_bool |-> FALSE,
     transform |-> FALSE, ty |-> "int"]

\* Structs of setter fields.  field_impl reads the setter options of the
\* field it is called for only, so the options are given to one field of
\* the struct at a time.
SetterInputs ==
    {[data |-> "named", attrs_ok |-> TRUE, fields |-> fs, mutators |-> {}] :
        fs \in {g \in [Ordinals -> SetterFieldAttrs] :
                   Cardinality({i \in Ordinals : g[i] # PlainField}) <= 1}}

SetterGenInit ==
    /\ ast \in SetterInputs
    /\ struct_info = NoStructInfo
    /\ pc = "impl_my_derive"
    /\ fragments = {}
    /\ output = NoOutput
    /\ fields = << >>
    /\ given = [i \in Ordinals |-> Unset]
    /\ last = "none"
    /\ result = << >>
    /\ evals = [i \in Ordinals |-> 0]
    /\ diagnostic = NoField
    /\ held = Unbound
    /\ scope = [i \in Ordinals |-> {}]
    /\ passed = NoCall
    /\ received = << >>

\* The tokens the derive put out are compiled into the program.
Compiled ==
    /\ pc = "done"
    /\ output.kind = "tokens"
    /\ pc' = "start"
    /\ UNCHANGED <<struct_info, ast, fragments, output>>
    /\ UNCHANGED chain_vars

SetterGenNext ==
    \/ StructInfoNew
    \/ BuilderCreation
    \/ FieldImpls
    \/ MutatorImpls
    \/ BuildMethodAndQuote
    \/ Compiled
    \/ Builder
    \/ \E f \in Ordinals, arg \in SetterArgValues : Setter(f, arg)

SetterGen == SetterGenInit /\ [][SetterGenNext]_vars

----------------------------------------------------------------------------
(* Mutators whose `requires` names fields that are not included: the        *)
(* derive of a struct, and calls of the setters and mutators it generated.  *)

\* A field with a setter, a via_mutators field and a skipped field.
ViaField == [PlainField EXCEPT !.via_mutators = [kind |-> "lit", arg |-> 0]]
SkippedField ==
    [PlainField EXCEPT !.skip = TRUE, !.default = [kind |-> "lit", arg |-> 0]]

\* Structs of such fields that declare one mutator for every set of names.
MutatorInputs ==
    [data : {"named"}, attrs_ok : {TRUE},
     fields : [Ordinals -> {PlainField, ViaField, SkippedField}],
     mutators : {NamedMutators}]

MutatorGenInit ==
    /\ ast \in MutatorInputs
    /\ struct_info = NoStructInfo
    /\ pc = "impl_my_derive"
    /\ fragments = {}
    /\ output = NoOutput
    /\ fields = << >>
    /\ given = [i \in Ordinals |-> Unset]
    /\ last = "none"
    /\ result = << >>
    /\ evals = [i \in Ordinals |-> 0]
    /\ diagnostic = NoField
    /\ held = Unbound
    /\ scope = [i \in Ordinals |-> {}]
    /\ passed = NoCall
    /\ received = << >>

MutatorGenNext ==
    \/ StructInfoNew
    \/ BuilderCreation
    \/ FieldImpls
    \/ MutatorImpls
    \/ BuildMethodAndQuote
    \/ Compiled
    \/ Builder
    \/ \E f \in Ordinals, arg \in ArgValues : Setter(f, arg)
    \/ \E m \in NamedMutators : MutatorCall(m, << >>)

MutatorGen == MutatorGenInit /\ [][MutatorGenNext]_vars

----------------------------------------------------------------------------
(* Properties.                                                              *)

\* The marker of field i in the live builder is Set.
IsSet(i) == Len(fields[i]) = 1

\* The included fields with no default.
NoDefaultFields == {i \in included_fields(struct_info) :
                        is_none(struct_info.fields[i].default)}

\* The via_mutators fields.
ViaFields == {i \in included_fields(struct_info) :
                 is_some(struct_info.fields[i].via_mutators)}

\* The skipped fields.
SkippedFields == {i \in Ordinals : struct_info.fields[i].skip}

\* The required fields whose marker is Unset.
MissingFields == {i \in NoDefaultFields \ ViaFields : fields[i] = Unset}

\* C2: build is available only where every included field with no default
\* is Set, and a struct build returned has a value for every field, taken
\* from a builder in which every such field was Set.
C2_BuildNeedsRequired ==
    /\ pc = "chain" /\ Matches(build_ty_generics(struct_info), fields)
          => \A i \in NoDefaultFields : IsSet(i)
    /\ pc = "built"
          => /\ \A i \in NoDefaultFields : IsSet(i)
             /\ DOMAIN result = Ordinals
    /\ pc = "rejected" => result = << >>

\* C2 witness: build returned for a schema with a required field, and a
\* field with a default was left unset.
C2_Witness ==
    /\ pc = "built"
    /\ NoDefaultFields \ ViaFields # {}
    /\ \E i \in included_fields(struct_info) : fields[i] = Unset

\* C3: where required fields are Unset, the missing-field overload that
\* applies is the one of the Unset required field with the smallest
\* ordinal, and it is the one a rejected build call resolved to.
C3_FirstMissing ==
    /\ pc = "chain" /\ MissingFields # {}
          => \A f \in NoDefaultFields \ ViaFields :
                Matches(required_builder_generics(struct_info, f), fields)
                   <=> (f \in MissingFields /\ \A g \in MissingFields : f <= g)
    /\ pc = "rejected"
          => /\ diagnostic \in MissingFields
             /\ \A g \in MissingFields : diagnostic <= g

\* C3 witness: a build call was rejected with two required fields Unset.
C3_Witness ==
    /\ pc = "rejected"
    /\ Cardinality(MissingFields) >= 2

\* C9 as stated: every included field of the initial builder is Unset.
C9_AllUnset ==
    last = "builder" => \A i \in included_fields(struct_info) : fields[i] = Unset

\* C9: in the default type-state and in the initial builder every setter
\* field is Unset and every via_mutators field is Set to its initializer.
C9_InitialShape ==
    last = "builder" =>
        /\ DOMAIN fields = included_fields(struct_info)
        /\ \A i \in included_fields(struct_info) \ ViaFields :
              /\ fields[i] = Unset
              /\ init_fields_type(struct_info)[i] = "unset"
        /\ \A i \in ViaFields :
              /\ fields[i] = Set(IntV(struct_info.fields[i].via_mutators.arg))
              /\ init_fields_type(struct_info)[i] = "set"

\* C9 witness: the initial builder of a schema with a setter field and a
\* via_mutators field.
C9_Witness ==
    /\ last = "builder"
    /\ ViaFields # {}
    /\ included_fields(struct_info) \ ViaFields # {}

\* C10: every via_mutators field is Set in every builder state, to its
\* initializer in the initial builder, and the impl block of every mutator
\* is written for its Set marker.
C10_ViaAlwaysSet ==
    pc # "start" =>
        \A i \in ViaFields :
            /\ IsSet(i)
            /\ last = "builder" =>
                  fields[i] = Set(IntV(struct_info.fields[i].via_mutators.arg))
            /\ \A m \in struct_info.mutators :
                  mutator_ty_generics(struct_info, m)[i] = "set"

\* C10 witness: after setters and a mutator call that changed the field.
C10_Witness ==
    /\ pc = "chain" /\ last = "mutator"
    /\ \E i \in ViaFields :
          fields[i] # Set(IntV(struct_info.fields[i].via_mutators.arg))
    /\ \E i \in included_fields(struct_info) \ ViaFields : IsSet(i)

\* The value the setter of a field with attributes attr keeps of arg.
StoredBy(attr, arg) == IF attr.strip_option THEN SomeV(arg.v) ELSE arg

\* The value of the default expression of field i in the build that
\* returned `result`.
DefaultValue(i) ==
    LET attr == struct_info.fields[i]
    IN  IF attr.default.kind = "ref" THEN result[attr.default.arg]
        ELSE IF attr.ty = "option" THEN NoneV ELSE IntV(0)

\* The fields flagged mutable_during_default_resolution.
MutableFields == {i \in Ordinals :
                     struct_info.fields[i].mutable_during_default_resolution}

\* The included fields that are not via_mutators fields.
SetterFields == included_fields(struct_info) \ ViaFields

\* The setter of every setter field has been called.
AllGiven == \A f \in SetterFields : given[f] # Unset

\* C1 as stated: after every setter was called once, in any order, every
\* included field is Set and the struct build returns holds, for every
\* setter field, the value given to its setter (as the setter stores it:
\* inside Some(..) for strip_option).
C1_GivenValues ==
    pc = "built" /\ AllGiven =>
        /\ \A i \in included_fields(struct_info) : IsSet(i)
        /\ \A f \in SetterFields :
              result[f] = StoredBy(struct_info.fields[f], given[f][1])

\* C1: after every setter was called once, in any order, every included
\* field is Set, build is available, and the struct it returns holds, for
\* every setter field not flagged mutable_during_default_resolution, the
\* value its setter stored: the argument, Some(argument) for strip_option.
C1_AnyOrder ==
    /\ pc = "chain" /\ AllGiven =>
          /\ \A i \in included_fields(struct_info) : IsSet(i)
          /\ Matches(build_ty_generics(struct_info), fields)
    /\ pc = "built" /\ AllGiven =>
          /\ \A i \in included_fields(struct_info) : IsSet(i)
          /\ \A f \in SetterFields \ MutableFields :
                result[f] = StoredBy(struct_info.fields[f], given[f][1])

\* C1 witness: build returned after the setters of two fields, one of them
\* strip_option, were called.
C1_Witness ==
    /\ pc = "built" /\ AllGiven
    /\ Cardinality(SetterFields) >= 2
    /\ \E f \in SetterFields : struct_info.fields[f].strip_option

\* C4: where field F is Set its setter is not available and the
\* repeated-field overload is, and no setter call and no call of a
\* repeated-field overload changes the element of a field that is Set.
C4_NoOverwrite ==
    /\ [](pc = "chain" =>
            \A f \in SetterFields :
                IsSet(f) =>
                    /\ ~Matches(field_ty_generics(struct_info, f), fields)
                    /\ Matches(field_target_generics(struct_info, f), fields))
    /\ [][pc = "chain" /\ last' \in {"setter", "repeated"} =>
            /\ \A f \in SetterFields : IsSet(f) => fields'[f] = fields[f]
            /\ last' = "repeated" => fields' = fields]_vars

\* C4 witness: a call resolved to the repeated-field overload with one
\* field Set and another Unset.
C4_Witness ==
    /\ pc = "chain" /\ last = "repeated"
    /\ \E f \in SetterFields : IsSet(f)
    /\ \E f \in SetterFields : fields[f] = Unset

\* C5: the setter of F is available exactly where the element of F is
\* Unset, and a setter call sets one Unset element to the value the setter
\* stores of its argument and leaves every other element as it was.
C5_SetterFrame ==
    /\ [](pc = "chain" =>
            \A f \in SetterFields :
                Matches(field_ty_generics(struct_info, f), fields)
                    <=> fields[f] = Unset)
    /\ [][pc = "chain" /\ last' = "setter" =>
            \E f \in SetterFields :
                /\ fields[f] = Unset /\ given[f] = Unset /\ given'[f] # Unset
                /\ fields'[f] =
                      Set(StoredBy(struct_info.fields[f], given'[f][1]))
                /\ DOMAIN fields' = DOMAIN fields
                /\ \A g \in DOMAIN fields \ {f} : fields'[g] = fields[g]]_vars

\* C5 witness: a setter was called while another field was already Set.
C5_Witness ==
    /\ pc = "chain" /\ last = "setter"
    /\ Cardinality({f \in SetterFields : IsSet(f)}) >= 2

\* The included fields that have a default.
DefaultFields == included_fields(struct_info) \ NoDefaultFields

\* C6 as stated: build evaluates the default of an included field once
\* where the field is Unset and never where it is Set, and the struct holds
\* the default's value or the set value.
C6_DefaultOrSet ==
    pc = "built" =>
        \A i \in DefaultFields :
            /\ fields[i] = Unset => evals[i] = 1 /\ result[i] = DefaultValue(i)
            /\ IsSet(i) => evals[i] = 0 /\ result[i] = fields[i][1]

\* C6: build is available whatever the markers of the fields with a
\* default; it evaluates the default of such a field once where the field
\* is Unset and never where it is Set; and, unless the field is flagged
\* mutable_during_default_resolution, the struct holds the default's value
\* or the set value.
C6_LazyDefault ==
    /\ pc = "chain" /\ (\A i \in NoDefaultFields : IsSet(i))
          => Matches(build_ty_generics(struct_info), fields)
    /\ pc = "built" =>
          \A i \in DefaultFields :
              /\ fields[i] = Unset =>
                    /\ evals[i] = 1
                    /\ i \notin MutableFields => result[i] = DefaultValue(i)
              /\ IsSet(i) =>
                    /\ evals[i] = 0
                    /\ i \notin MutableFields => result[i] = fields[i][1]

\* C6 witness: build returned with one field with a default Unset and
\* another one Set.
C6_Witness ==
    /\ pc = "built"
    /\ \E i \in DefaultFields \ ViaFields : fields[i] = Unset /\ evals[i] = 1
    /\ \E i \in DefaultFields \ ViaFields : IsSet(i) /\ evals[i] = 0

\* C7: a mutator is available only where every included field it requires
\* is Set, and a mutator call leaves every element Set or Unset as it was,
\* the required fields of some mutator holding what its function wrote.
C7_MutatorKeepsPartition ==
    /\ [](pc = "chain" =>
            \A m \in struct_info.mutators :
                Matches(mutator_ty_generics(struct_info, m), fields) =>
                    \A i \in m.required_fields \cap DOMAIN fields : IsSet(i))
    /\ [][pc = "chain" /\ last' = "mutator" =>
            /\ DOMAIN fields' = DOMAIN fields
            /\ \A i \in DOMAIN fields : Len(fields'[i]) = Len(fields[i])
            /\ \E m \in struct_info.mutators :
                  \A i \in m.required_fields \cap DOMAIN fields :
                      /\ IsSet(i)
                      /\ fields'[i] = Set(Raised(fields[i][1]))]_vars

\* C7 witness: a mutator changed a field a setter had set while another
\* field was Unset.
C7_Witness ==
    /\ pc = "chain" /\ last = "mutator"
    /\ \E i \in SetterFields :
          /\ IsSet(i)
          /\ fields[i] # Set(StoredBy(struct_info.fields[i], given[i][1]))
    /\ \E i \in SetterFields : fields[i] = Unset

\* C8 as stated, for skipped fields: the struct build returns holds the
\* value of the default expression of every skipped field.
C8_SkippedHoldDefault ==
    pc = "built" => \A i \in SkippedFields : result[i] = DefaultValue(i)

\* C8: a skipped field has no tuple element, no setter and no missing-field
\* overload, build evaluates its default once and, unless the field is
\* flagged mutable_during_default_resolution, the struct holds that value;
\* a via_mutators field has no setter and no missing-field overload, and
\* only a mutator call changes its element.
C8_SkipAndVia ==
    /\ [](pc # "start" =>
            /\ \A i \in SkippedFields :
                  /\ i \notin DOMAIN fields
                  /\ i \notin setter_fields(struct_info)
                  /\ i \notin required_fields(struct_info)
                  /\ given[i] = Unset /\ diagnostic # i
                  /\ pc = "built" =>
                        /\ evals[i] = 1
                        /\ i \notin MutableFields => result[i] = DefaultValue(i)
            /\ \A i \in ViaFields :
                  /\ i \notin setter_fields(struct_info)
                  /\ i \notin required_fields(struct_info)
                  /\ given[i] = Unset /\ diagnostic # i)
    /\ [][pc = "chain" =>
            \A i \in ViaFields :
                fields'[i] # fields[i] => last' = "mutator"]_vars

\* C8 witness: build returned for a schema with a skipped field and a
\* via_mutators field that a mutator had changed.
C8_Witness ==
    /\ pc = "built"
    /\ SkippedFields # {}
    /\ \E i \in ViaFields :
          fields[i] # Set(IntV(struct_info.fields[i].via_mutators.arg))

\* The generated methods that take the builder as their receiver.
Calls == {"setter", "repeated", "mutator", "missing", "build"}

\* C11: every call of a setter, a repeated-field overload, a mutator, a
\* missing-field overload or build takes the live builder and leaves none
\* of it with the caller: what the caller holds beside the returned value
\* is what it held before, and that is only ever a clone it took of the
\* initial builder; a setter, repeated-field overload or mutator returns a
\* builder, and after a missing-field overload or build the caller can go
\* on only with a clone it held.
C11_Consumed ==
    /\ [](held.status = "live" =>
            /\ held.fields = init_fields_expr(struct_info)
            /\ held.given = [i \in Ordinals |-> Unset])
    /\ [][pc = "chain" /\ last' \in Calls =>
            /\ held' = held
            /\ last' \in {"setter", "repeated", "mutator"} =>
                  pc' = "chain" /\ DOMAIN fields' = DOMAIN fields
            /\ last' = "missing" => pc' = "rejected"
            /\ last' = "build" => pc' = "built"]_vars
    /\ [][(pc = "built" \/ pc = "rejected") =>
            held.status = "live" /\ last' = "resume" /\ held' = Unbound]_vars

\* C11 witness: build consumed a builder with a field set while the caller
\* held a clone of the initial builder.
C11_Witness ==
    /\ pc = "built"
    /\ held.status = "live"
    /\ \E f \in SetterFields : IsSet(f)

\* The setter fields of the derive input whose field_impl is an error.
FailingFields ==
    {i \in Ordinals :
        /\ ~ast.fields[i].skip /\ is_none(ast.fields[i].via_mutators)
        /\ ast.fields[i].strip_option /\ ast.fields[i].ty # "option"}

\* The derive input makes some step of the derive fail.
Rejected == ast.data # "named" \/ ~ast.attrs_ok \/ FailingFields # {}

\* The kinds of fragment the derive generates.
FragmentKinds ==
    {"builder_method", "builder_type", "clone_impl", "setter", "repeated",
     "missing", "mutator", "build"}

\* C12: where the input is no struct with named fields, or a generation
\* step returns an error, the output is the compile error alone, with no
\* fragment, whatever was generated before the error; otherwise the output
\* is the fragments and no error.
C12_ErrorAlone ==
    /\ output.kind = "compile_error" =>
          /\ output.tokens = {} /\ output.error # ""
          /\ pc = "done" /\ fragments = {}
    /\ pc = "done" /\ Rejected =>
          /\ output.kind = "compile_error" /\ output.tokens = {}
          /\ ast.data # "named" => output.error = unsupported(ast.data)
    /\ pc = "done" /\ ~Rejected =>
          /\ output.kind = "tokens" /\ output.error = ""
          /\ {t.kind : t \in output.tokens} \subseteq FragmentKinds
          /\ {"builder_method", "builder_type", "build"}
                \subseteq {t.kind : t \in output.tokens}

\* C12 witness: the setter of the last field failed after the entry point
\* and the builder type were generated, and the setter of an earlier field.
C12_Witness ==
    /\ pc = "done" /\ output.kind = "compile_error"
    /\ ast.data = "named" /\ ast.attrs_ok
    /\ FailingFields = {NumFields - 1}
    /\ \E i \in Ordinals :
          /\ ~ast.fields[i].skip /\ is_none(ast.fields[i].via_mutators)
          /\ i < NumFields - 1

\* The builder methods generated so far or put out.
BuilderMethods ==
    {t \in fragments \cup output.tokens : t.kind = "builder_method"}

\* The included via_mutators fields of the derive input whose initializer
\* is no literal.
NonLiteralInits ==
    {i \in Ordinals :
        /\ ~ast.fields[i].skip /\ is_some(ast.fields[i].via_mutators)
        /\ ast.fields[i].via_mutators.kind # "lit"}

\* C13: the builder method is generated once, and it is `const` exactly
\* where the initializer of every included via_mutators field is a literal
\* (so also where there is no such field), whatever the position of the
\* field; otherwise it has no qualifier.
C13_ConstEntry ==
    /\ pc \in {"fields", "mutators", "build_method"} \/ output.kind = "tokens"
          => Cardinality(BuilderMethods) = 1
    /\ \A t \in BuilderMethods :
          /\ t.qualifier = "const" <=> NonLiteralInits = {}
          /\ t.qualifier = "" <=> NonLiteralInits # {}

\* C13 witness: the output for a struct whose first field has a literal
\* initializer and whose last field has one that is no literal.
C13_Witness ==
    /\ output.kind = "tokens"
    /\ is_some(ast.fields[0].via_mutators)
    /\ 0 \notin NonLiteralInits
    /\ NumFields - 1 \in NonLiteralInits
    /\ \E t \in output.tokens : t.kind = "builder_method" /\ t.qualifier = ""

\* The setter fields of the derive input flagged strip_option whose type is
\* no Option.
StripNonOption ==
    {i \in Ordinals : ast.fields[i].strip_option /\ ast.fields[i].ty # "option"}

\* The fields for which a setter was put out.
SettersOut == {t.field : t \in {u \in output.tokens : u.kind = "setter"}}

ConvertibleTo(ty, arg) ==
    IF ty = "int" THEN arg.tag \in {"int", "from"}
    ELSE arg.tag \in {"some", "none", "int"}
Converted(ty, arg) ==
    IF ty = "int" THEN IntV(arg.v)
    ELSE IF arg.tag = "int" THEN SomeV(arg.v) ELSE arg

\* A value of type ty.
OfType(ty, arg) ==
    IF ty = "int" THEN arg.tag = "int" ELSE arg.tag \in {"some", "none"}

\* The arguments the setter of a field takes by the precedence
\* strip-bool > transform > strip-option > auto-into > plain.
TakenBy(attr, arg) ==
    IF attr.strip_bool THEN arg = NoArg
    ELSE IF attr.transform THEN OfType(TransformParams.ty, arg)
    ELSE IF attr.strip_option
         THEN IF attr.auto_into THEN ConvertibleTo("int", arg)
              ELSE OfType("int", arg)
    ELSE IF attr.auto_into THEN ConvertibleTo(attr.ty, arg)
    ELSE OfType(attr.ty, arg)

\* The value the setter of a field stores of an argument it takes, by the
\* same precedence.
KeptBy(attr, arg) ==
    IF attr.strip_bool THEN BoolV(1)
    ELSE IF attr.transform THEN TransformBody(arg)
    ELSE IF attr.strip_option
         THEN IF attr.auto_into THEN SomeV(Converted("int", arg).v)
              ELSE SomeV(arg.v)
    ELSE IF attr.auto_into THEN Converted(attr.ty, arg)
    ELSE arg

\* C15: a generated setter takes exactly the arguments, and stores the
\* value, that the precedence strip-bool > transform > strip-option >
\* auto-into > plain selects: no argument and `true`; the transform's
\* parameters and the result of its body; a T and Some(T), or with
\* auto-into a value that converts to T and Some(converted); a value that
\* converts to the declared type and the converted value; a value of the
\* declared type and that value.
C15_ArgPrecedence ==
    pc = "chain" =>
        \A f \in setter_fields(struct_info) :
            /\ fields[f] = Unset =>
                  \A arg \in SetterArgValues :
                      ENABLED Setter(f, arg)
                          <=> TakenBy(struct_info.fields[f], arg)
            /\ given[f] # Unset =>
                  /\ TakenBy(struct_info.fields[f], given[f][1])
                  /\ fields[f] =
                        Set(KeptBy(struct_info.fields[f], given[f][1]))

\* C15 witness: the setter of a field flagged strip_option and auto_into
\* was called with a value that is no T but converts to T, after the
\* setter of a plain field.
C15_Witness ==
    /\ pc = "chain"
    /\ \E f \in setter_fields(struct_info) :
          /\ struct_info.fields[f].strip_option
          /\ struct_info.fields[f].auto_into
          /\ ~struct_info.fields[f].strip_bool
          /\ ~struct_info.fields[f].transform
          /\ given[f] = Set(FromV(1))
          /\ fields[f] = Set(SomeV(1))
    /\ \E f \in setter_fields(struct_info) :
          struct_info.fields[f] = PlainField /\ IsSet(f)


\* The default of a later field, evaluated in build, wrote to the binding
\* of field k.
WrittenLater(k) ==
    \E j \in Ordinals :
        /\ j > k
        /\ struct_info.fields[j].default.kind = "bump"
        /\ struct_info.fields[j].default.arg = k
        /\ evals[j] = 1

\* C16: build binds every field of the struct, included or skipped, once
\* and in ascending ordinal order: when the `let` of field k runs, the
\* bound fields are exactly those of lower ordinal, so a default that was
\* evaluated saw the resolved value of the field before it (which the
\* field holds where no later default wrote to it), and no field of higher
\* ordinal was resolved yet.
C16_AscendingBinding ==
    /\ Len(field_order(struct_info)) = NumFields
    /\ \A n \in 1 .. Len(field_order(struct_info)) :
          field_order(struct_info)[n] = n - 1
    /\ pc = "built" =>
          /\ DOMAIN result = Ordinals
          /\ \A k \in Ordinals : scope[k] = {j \in Ordinals : j < k}
          /\ \A k \in Ordinals :
                /\ struct_info.fields[k].default.kind = "ref"
                /\ evals[k] = 1
                /\ ~WrittenLater(k)
                => result[k] = result[struct_info.fields[k].default.arg]

\* C16 witness: build resolved a skipped field and then evaluated the
\* default of the next field, which names the skipped one.
C16_Witness ==
    /\ pc = "built"
    /\ \E k \in Ordinals :
          /\ struct_info.fields[k].default.kind = "ref"
          /\ evals[k] = 1
          /\ struct_info.fields[struct_info.fields[k].default.arg].skip
          /\ scope[k] = {j \in Ordinals : j < k}
          /\ result[k] = result[struct_info.fields[k].default.arg]


\* The fields a mutator's struct is to expose: the included fields its
\* `requires` names and the via_mutators fields.
Exposed(m) ==
    {i \in included_fields(struct_info) :
        i \in m.required_fields \/ i \in ViaFields}

\* C17: a call of a mutator hands its function exactly the included fields
\* the mutator requires and the via_mutators fields, so these hold what
\* the function made of them, and every other included field keeps its
\* marker and its value.
C17_MutatorFrame ==
    [][pc = "chain" /\ last' = "mutator" =>
          \A m \in {x \in ArgMutators : mutator_args(x) = passed'.names} :
              MutatorCall(m, passed'.args) =>
                  \A i \in included_fields(struct_info) :
                      fields'[i] = IF i \in Exposed(m)
                                   THEN Set(Raised(fields[i][1]))
                                   ELSE fields[i]]_vars

\* C17 witness: a mutator changed a field a setter had set, and another
\* field a setter had set, which the function would have changed too,
\* holds what the setter stored.
C17_Witness ==
    /\ pc = "chain" /\ last = "mutator"
    /\ \E i \in SetterFields :
          /\ IsSet(i)
          /\ fields[i] # Set(StoredBy(struct_info.fields[i], given[i][1]))
          /\ \E j \in SetterFields \ {i} :
                /\ IsSet(j)
                /\ fields[j] = Set(StoredBy(struct_info.fields[j], given[j][1]))
                /\ Raised(fields[j][1]) # fields[j][1]


\* The values the elements of a tuple hold.
Held(tuple) == {tuple[i][1] : i \in {j \in DOMAIN tuple : Len(tuple[j]) = 1}}

\* C18: a mutator binds the arguments of the call before it destructures
\* the fields: its function is passed the arguments of the caller, whatever
\* the names of its parameters, and no field of the builder it returns
\* holds an argument, each holding what the function left in the mutator
\* struct or what it held before the call.
C18_ArgsBoundFirst ==
    pc = "chain" =>
        /\ received = passed.args
        /\ Held(fields) \cap MutatorArgValues = {}
        /\ \A i \in SetterFields :
              IsSet(i) =>
                  fields[i][1] \in
                      {StoredBy(struct_info.fields[i], given[i][1]),
                       Raised(StoredBy(struct_info.fields[i], given[i][1]))}
        /\ \A i \in ViaFields :
              fields[i][1] \in
                  {IntV(struct_info.fields[i].via_mutators.arg),
                   Raised(IntV(struct_info.fields[i].via_mutators.arg))}

\* C18 witness: a mutator with a parameter of the first field's name was
\* called and its function was passed the argument, after a setter had set
\* that field, which holds what a mutator function made of it.
C18_Witness ==
    /\ pc = "chain" /\ last = "mutator"
    /\ passed.names = <<0>>
    /\ passed.args \in {<<a>> : a \in MutatorArgValues}
    /\ received = passed.args
    /\ 0 \in SetterFields
    /\ IsSet(0)
    /\ fields[0] = Set(Raised(StoredBy(struct_info.fields[0], given[0][1])))


\* Two patterns have no tuple type in common: they pin some element to
\* different markers.
Disjoint(p, q) ==
    \E i \in DOMAIN p \cap DOMAIN q : {p[i], q[i]} = {"set", "unset"}

\* The missing-field overloads whose impl block matches the builder.
MissingOverloads ==
    {f \in required_fields(struct_info) :
        Matches(required_builder_generics(struct_info, f), fields)}

\* The impl block of build matches the builder.
BuildApplies == Matches(build_ty_generics(struct_info), fields)

\* C19: the impl blocks of the methods named build have pairwise disjoint
\* patterns, and in every state of a builder exactly one of them matches:
\* the one of build where every required field is Set, and otherwise the
\* one of a single missing-field overload.
C19_OneFinalize ==
    /\ \A f \in required_fields(struct_info) :
          /\ Disjoint(required_builder_generics(struct_info, f),
                      build_ty_generics(struct_info))
          /\ \A g \in required_fields(struct_info) \ {f} :
                Disjoint(required_builder_generics(struct_info, f),
                         required_builder_generics(struct_info, g))
    /\ pc = "chain" =>
          /\ BuildApplies <=>
                \A f \in SetterFields \cap NoDefaultFields : IsSet(f)
          /\ BuildApplies => MissingOverloads = {}
          /\ ~BuildApplies => Cardinality(MissingOverloads) = 1

\* C19 witness: a builder with one required field Set and two Unset, which
\* the missing-field overload of one field matches, or, where the struct
\* has two fields, with one required field Set and one Unset.
C19_Witness ==
    /\ pc = "chain"
    /\ \E f \in SetterFields \cap NoDefaultFields : IsSet(f)
    /\ Cardinality(MissingFields) = IF NumFields > 2 THEN 2 ELSE 1
    /\ Cardinality(MissingOverloads) = 1
    /\ ~BuildApplies


\* The fields whose marker is Set in a tuple.
SetIn(tuple) == {i \in DOMAIN tuple : Len(tuple[i]) = 1}

\* The setter fields whose ordinary setter the chain has called.
Called == {i \in Ordinals : given[i] # Unset}

\* C20: along a chain of setter, repeated-field and mutator calls no field
\* that is Set becomes Unset: a call of an ordinary setter adds one field,
\* whose setter the chain had not called, to the Set fields, and a call of
\* a repeated-field overload or of a mutator leaves them as they are; so
\* the chain calls the ordinary setter of a field at most once.
C20_SetOnlyGrows ==
    [][pc = "chain" /\ pc' = "chain" =>
          /\ SetIn(fields) \subseteq SetIn(fields')
          /\ last' = "setter" =>
                \E f \in setter_fields(struct_info) \ Called :
                    /\ f \notin SetIn(fields)
                    /\ SetIn(fields') = SetIn(fields) \cup {f}
                    /\ Called' = Called \cup {f}
          /\ last' \in {"repeated", "mutator"} =>
                /\ SetIn(fields') = SetIn(fields)
                /\ Called' = Called
          /\ Called' \subseteq SetIn(fields')]_vars

\* C20 witness: a chain called the setters of two fields and then the
\* repeated-field overload of one of them, and both fields are Set.
C20_Witness ==
    /\ pc = "chain" /\ last = "repeated"
    /\ Cardinality(Called) >= 2
    /\ Called \subseteq SetIn(fields)


\* The mutator whose `requires` lists the names of m that included fields
\* have, and no other.
Known(m) ==
    [m EXCEPT !.required_fields = @ \cap included_fields(struct_info)]

\* C21: a name in `requires` that no included field has, an unknown name
\* or the name of a skipped field, is no configuration error, and the
\* mutator is generated as without the name: it is available in the same
\* builders, its struct has the same members and its call returns the
\* same builder.
C21_UnknownNameIgnored ==
    /\ pc = "done" /\ ast.attrs_ok =>
          /\ output.kind = "tokens"
          /\ \A m \in ast.mutators :
                Fragment("mutator", NoField, m.required_fields, "")
                    \in output.tokens
    /\ pc = "chain" =>
          \A m \in struct_info.mutators :
              /\ mutator_destructure_fields(struct_info, m)
                    = mutator_destructure_fields(struct_info, Known(m))
              /\ mutator_destructure_fields(struct_info, m)
                    \subseteq included_fields(struct_info)
              /\ (ENABLED MutatorCall(m, << >>))
                    <=> (ENABLED MutatorCall(Known(m), << >>))
              /\ (ENABLED MutatorCall(m, << >>)) =>
                    mutator_body(struct_info, fields, m, << >>)
                        = mutator_body(struct_info, fields, Known(m), << >>)

\* C21 witness: the derive generated the mutators of a struct with a
\* skipped field, and in a builder made of its output, after a mutator
\* call, the mutator that requires the skipped field and an unknown name
\* next to a field a setter has set is available.
C21_Witness ==
    /\ pc = "chain" /\ last = "mutator"
    /\ output.kind = "tokens"
    /\ \E k \in SkippedFields, f \in included_fields(struct_info) :
          /\ struct_info.fields[f] = PlainField
          /\ IsSet(f)
          /\ fields[f] # Set(given[f][1])
          /\ Fragment("mutator", NoField, {f, k, FreshName}, "")
                \in output.tokens
          /\ ENABLED MutatorCall([required_fields |-> {f, k, FreshName},
                                  params |-> << >>], << >>)


\* The fields required_field_impl takes for optional: the included fields
\* with a default or via_mutators.
OptionalFields ==
    {i \in included_fields(struct_info) :
        \/ is_some(struct_info.fields[i].default)
        \/ is_some(struct_info.fields[i].via_mutators)}

\* C22: the assertion of required_field_impl fails in no derive: the
\* fields impl_my_derive calls it for are included, have a setter and have
\* no default, so none of them is reached in the branch of the fields with
\* a default or via_mutators, and no derive ends in a panic.
C22_AssertionHolds ==
    /\ output.kind # "panicked"
    /\ pc = "build_method" =>
          \A f \in required_fields(struct_info) :
              /\ f \in included_fields(struct_info)
              /\ is_none(struct_info.fields[f].via_mutators)
              /\ is_none(struct_info.fields[f].default)
              /\ f \notin OptionalFields
              /\ ~required_field_impl(struct_info, f).panicked

\* C22 witness: a derive returned the missing-field overload of a field
\* of a struct that has an included field with a default or via_mutators.
C22_Witness ==
    /\ pc = "done" /\ output.kind = "tokens"
    /\ OptionalFields # {}
    /\ \E f \in Ordinals \ OptionalFields :
          Fragment("missing", f, {}, "") \in output.tokens

====
